---- MODULE Spec2Model ----
(***************************************************************************)
(* Model of the grades watcher (src/main.py): one scheduled run logs into  *)
(* the portal with a headless browser, fetches the grades JSON, compares   *)
(* it with previous.json, mails a redacted digest of the new entries and   *)
(* stores the fetched document as the next previous.json.                  *)
(*                                                                         *)
(* Files on disk (previous.json, current.json) survive from run to run;    *)
(* everything else is the state of one process and is reset by StartRun.   *)
(***************************************************************************)
EXTENDS Integers, Sequences, FiniteSets, TLC

\* ------------------------------------------------------------------ bounds
\* grade ids are 1..MaxId
MaxId == 2
\* a fetched document holds at most MaxGrades records
MaxGrades == 2
\* a login page shows at most MaxButtons submit-like controls
MaxButtons == 2
\* a login page shows at most MaxInputs named input controls
MaxInputs == 3

\* ------------------------------------------------------------ Python values
\* Python's None, and the marker of a key that a JSON object does not have
None == "<None>"
Missing == "<missing>"
\* a file that does not exist (os.path.exists is False)
Absent == [exists |-> FALSE]
PREV_FILE == "previous.json"
CURRENT_FILE == "current.json"

\* str(x) as an f-string renders it
PyStr(x) == IF x = None THEN "None" ELSE x

\* str(n) for a natural number, as a sequence of digit characters
Digit(d) == <<"0", "1", "2", "3", "4", "5", "6", "7", "8", "9">>[d + 1]
RECURSIVE IntToStr(_)
IntToStr(n) == IF n < 10 THEN <<Digit(n)>> ELSE IntToStr(n \div 10) \o <<Digit(n % 10)>>

\* ------------------------------------------------------------ grade records
Ids == 1..MaxId
SubjectNames == <<"Math", "Physics", "History", "Biology">>
CollectionNames == <<"Quiz 1", "Exam 2", "Essay 3", "Lab 4">>
Dates == <<"2024-01-01", "2024-02-02", "2024-03-03", "2024-04-04">>
Name(table, i) == table[((i - 1) % Len(table)) + 1]

\* the numeric scores of the portal's scale that the model uses
Values == {1, 6}

\* a record with the nested collection/subject objects and a given_at
FullRecord(id, v) ==
    [id |-> id,
     collection |-> [present |-> TRUE, name |-> Name(CollectionNames, id),
                     subject |-> [present |-> TRUE, name |-> Name(SubjectNames, id)]],
     given_at |-> Name(Dates, id),
     value |-> v]
\* a record that has only its id and its score
BareRecord(id, v) ==
    [id |-> id,
     collection |-> [present |-> FALSE, name |-> Missing,
                     subject |-> [present |-> FALSE, name |-> Missing]],
     given_at |-> Missing,
     value |-> v]
\* the record the portal holds for an id: every second one is a bare record
Record(id) == IF id % 2 = 0 THEN BareRecord(id, 6) ELSE FullRecord(id, 1)
Records == {Record(id) : id \in Ids}

RECURSIVE SeqsUpTo(_, _)
SeqsUpTo(S, n) ==
    IF n = 0 THEN {<<>>}
    ELSE LET shorter == SeqsUpTo(S, n - 1)
         IN  shorter \cup {Append(s, x) : s \in {t \in shorter : Len(t) = n - 1}, x \in S}

\* the JSON documents the portal may serve: {"data": {"grades": [...]}} or a
\* document without data.grades
GoodDocs == {[hasGrades |-> TRUE, grades |-> gs] : gs \in SeqsUpTo(Records, MaxGrades)}
BadDoc == [hasGrades |-> FALSE, grades |-> <<>>]
Docs == GoodDocs \cup {BadDoc}
\* the value of data before login_and_fetch has returned
NoData == [hasGrades |-> FALSE, grades |-> <<>>, fetched |-> FALSE]

\* json.dump(data, f, indent=2, ensure_ascii=False) and json.load(f)
JsonDump(doc) == [exists |-> TRUE, json |-> doc]
JsonLoad(file) == file.json

\* ------------------------------------------------------------- dict lookups
\* g.get("collection", {}).get("subject", {}).get("name")
GetSubjectName(g) ==
    IF g.collection.present /\ g.collection.subject.present
       /\ g.collection.subject.name # Missing
    THEN g.collection.subject.name ELSE None
\* g.get("collection", {}).get("name")
GetCollectionName(g) ==
    IF g.collection.present /\ g.collection.name # Missing
    THEN g.collection.name ELSE None
\* g.get("given_at")
GetGivenAt(g) == IF g.given_at # Missing THEN g.given_at ELSE None

\* ------------------------------------------------------------------ the diff
\* {g["id"] for g in grades}
IdSet(grades) == {grades[k].id : k \in 1..Len(grades)}
\* prev.get("data", {}).get("grades", [])
PrevGrades(prev) == IF prev.hasGrades THEN prev.grades ELSE <<>>

Elems(s) == {s[k] : k \in 1..Len(s)}

\* the orders in which iterating over a set may yield its elements
Iterations(S) ==
    {s \in [1..Cardinality(S) -> S] : \A a, b \in 1..Cardinality(S) : s[a] = s[b] => a = b}

\* sorted(): each element of the iterable is inserted at its place in the
\* ascending list built from the elements before it
RECURSIVE Insert(_, _)
Insert(x, s) ==
    IF s = <<>> THEN <<x>>
    ELSE IF x < Head(s) THEN <<x>> \o s
    ELSE <<Head(s)>> \o Insert(x, Tail(s))
\* sorted() left out: new_ids = list(curr_ids - prev_ids)
sortedLeftOut(it) == it
RECURSIVE sorted(_)
sorted(it) ==
    IF it = <<>> THEN <<>>
    ELSE Insert(it[Len(it)], sorted(SubSeq(it, 1, Len(it) - 1)))

\* curr_ids ^ prev_ids in place of curr_ids - prev_ids
SymmetricDifference(curr_ids, prev_ids) == (curr_ids \ prev_ids) \cup (prev_ids \ curr_ids)
\* curr_ids - prev_ids
SetDifference(curr_ids, prev_ids) == curr_ids \ prev_ids

\* --------------------------------------------------------------- the digest
\* an entry of notes that copies the score into given_at
NoteWithValue(g) ==
    [id |-> g.id, subject |-> GetSubjectName(g),
     collection |-> GetCollectionName(g), given_at |-> Digit(g.value)]
\* one entry of notes for a grade
Note(g) ==
    [id |-> g.id, subject |-> GetSubjectName(g),
     collection |-> GetCollectionName(g), given_at |-> GetGivenAt(g)]
\* notes: the grades whose id is in new_ids, in document order
RECURSIVE Notes(_, _)
Notes(grades, ids) ==
    IF grades = <<>> THEN <<>>
    ELSE (IF Head(grades).id \in Elems(ids) THEN <<Note(Head(grades))>> ELSE <<>>)
         \o Notes(Tail(grades), ids)

\* f"[Noten-Update] {len(notes)} neue Einträge"
Subject(ns) == <<"[Noten-Update] ">> \o IntToStr(Len(ns)) \o <<" neue Einträge">>
\* f"Fach: {n['subject']}\nBezeichnung: {n['collection']}\nDatum: {n['given_at']}"
Block(n) ==
    <<"Fach: ", PyStr(n.subject), "\nBezeichnung: ", PyStr(n.collection),
      "\nDatum: ", PyStr(n.given_at)>>
\* "\n\n".join(blocks)
RECURSIVE Join(_, _)
Join(sep, blocks) ==
    IF blocks = <<>> THEN <<>>
    ELSE IF Len(blocks) = 1 THEN Head(blocks)
    ELSE Head(blocks) \o <<sep>> \o Join(sep, Tail(blocks))
Body(ns) == Join("\n\n", [k \in 1..Len(ns) |-> Block(ns[k])])

\* ------------------------------------------------------------ configuration
\* SECRETS and GITHUB_TOKEN as the module reads them at import: TRUE for a
\* setting that is present, the configured name for the two field hints
FullConfig ==
    [BOT_SECRETS_B64 |-> TRUE, LOGIN_URL |-> TRUE, GRADES_URL |-> TRUE,
     SMTP_HOST |-> TRUE, GITHUB_TOKEN |-> TRUE,
     LOGIN_FORM_FIELD_USER |-> "username", LOGIN_FORM_FIELD_PASS |-> "password"]
\* the configurations of the orchestration runs
Configs ==
    {FullConfig,
     [FullConfig EXCEPT !.BOT_SECRETS_B64 = FALSE],
     [FullConfig EXCEPT !.LOGIN_URL = FALSE],
     [FullConfig EXCEPT !.GRADES_URL = FALSE],
     [FullConfig EXCEPT !.SMTP_HOST = FALSE],
     [FullConfig EXCEPT !.GITHUB_TOKEN = FALSE]}
\* the configurations of the login runs: the field hints vary
LoginConfigs ==
    {[FullConfig EXCEPT !.LOGIN_FORM_FIELD_USER = u, !.LOGIN_FORM_FIELD_PASS = p] :
        u \in {"login", "username", "email"}, p \in {"pwd", "password"}}

\* --------------------------------------------------------------- login page
UserFallbacks == <<"identifier", "username", "email", "user">>
PassFallbacks == <<"password", "pass", "passwd">>
possible_user_fields(c) == <<c.LOGIN_FORM_FIELD_USER>> \o UserFallbacks
possible_pass_fields(c) == <<c.LOGIN_FORM_FIELD_PASS>> \o PassFallbacks

InputNames == {"login", "identifier", "username", "email", "user",
               "pwd", "password", "pass", "passwd"}
\* a page: the names of its input controls, and whether its inputs keep the
\* text typed into them unchanged
AllPages ==
    {[inputs |-> ns, keeps |-> k] :
        ns \in {s \in SUBSET InputNames : Cardinality(s) <= MaxInputs}, k \in BOOLEAN}
\* the login pages of the orchestration runs
MainPages == {[inputs |-> {"username", "password"}, keeps |-> TRUE]}
NoPage == [inputs |-> {}, keeps |-> TRUE]

\* f'input[name="{field}"]'
Selector(field) == <<"input[name=\"", field, "\"]">>
NoSelector == <<>>
\* page.locator(sel).count()
Count(p, sel) == IF sel # NoSelector /\ sel[2] \in p.inputs THEN 1 ELSE 0

\* for field in fields: if page.locator(sel).count() > 0: selector = sel; break
\* the resolution loop without its break: the last matching name wins
RECURSIVE LastMatch(_, _)
LastMatch(fields, p) ==
    IF fields = <<>> THEN NoSelector
    ELSE IF LastMatch(Tail(fields), p) # NoSelector THEN LastMatch(Tail(fields), p)
    ELSE IF Count(p, Selector(Head(fields))) > 0 THEN Selector(Head(fields))
    ELSE NoSelector
RECURSIVE FirstMatch(_, _)
FirstMatch(fields, p) ==
    IF fields = <<>> THEN NoSelector
    ELSE IF Count(p, Selector(Head(fields))) > 0 THEN Selector(Head(fields))
    ELSE FirstMatch(Tail(fields), p)

\* what a fill leaves in the field
FieldValue(p, text) == IF p.keeps THEN text ELSE "<transformed>"

\* the ids of the records a digest is about
NoteIds(ns) == {ns[k].id : k \in 1..Len(ns)}

\* what a reader who follows the runs over an append-only feed has seen: the ids
\* of the last document fetched, the ids of the snapshot the first run stored,
\* the ids named in a delivered notification, the ids named in two, and the ids
\* of a digest whose send raised
NoFeed ==
    [on |-> FALSE, seen |-> {}, baseline |-> {}, notified |-> {}, twice |-> {},
     failed |-> {}]
FeedStart == [NoFeed EXCEPT !.on = TRUE]

\* -------------------------------------------------------------------- state
VARIABLES
    prevFile,           \* previous.json on disk
    currFile,           \* current.json on disk
    prevAtStart,        \* previous.json as it was when the process started
    cfg,                \* the configuration the process loaded
    pc,                 \* the statement the process is at
    exit,               \* the exit status: -1 while running, then 0 or 1
    err,                \* the diagnostic of a failed run
    playwright,         \* the sync_playwright() context: none, running, stopped
    browser,            \* the launched browser: none, open, closed
    page,               \* the login page that was loaded
    fieldPresent,       \* page.locator(username_selector).count() > 0, now
    username_selector,
    password_selector,
    filled,             \* the page.fill calls made: <<selector, text>>
    readback,           \* the input_value() of the two fields after the fills
    presses,            \* the number of Enter presses
    still_login,
    buttons,            \* len(buttons)
    i,                  \* the index of the next button to try
    clicks,             \* the indices of the buttons on which click was called
    raised,             \* the last b.click(timeout=3000) raised
    shots,              \* the screenshots written
    gradesRequested,    \* page.goto(GRADES_URL) has sent its request
    data,               \* the document login_and_fetch returned
    new_ids,
    notes,
    subject,
    body,
    outbox,             \* the messages smtp.send_message delivered
    mailAttempts,       \* the number of send_email calls
    written,            \* the snapshot files this process created or wrote
    commitMsg,          \* the message argument of git_commit_and_push
    gitLog,             \* the git commands that ran successfully
    feed                \* what a reader of an append-only feed has seen of the runs

diskVars == <<prevFile, currFile>>
procVars == <<prevAtStart, cfg>>
sessVars == <<playwright, browser>>
loginVars == <<page, fieldPresent, username_selector, password_selector, filled,
               readback, presses, still_login, buttons, i, clicks, raised, raised, shots,
               gradesRequested>>
mainVars == <<data, new_ids, notes, subject, body, outbox, mailAttempts, written>>
gitVars == <<commitMsg, gitLog>>
obsVars == <<feed>>
vars == <<prevFile, currFile, prevAtStart, cfg, pc, exit, err, playwright, browser,
          page, fieldPresent, username_selector, password_selector, filled,
          readback, presses, still_login, buttons, i, clicks, raised, raised, shots,
          gradesRequested, data, new_ids, notes, subject, body, outbox,
          mailAttempts, written, commitMsg, gitLog, feed>>

\* the state of a process that has just been started
Fresh ==
    /\ pc = "load_secrets"
    /\ exit = -1
    /\ err = ""
    /\ playwright = "none"
    /\ browser = "none"
    /\ page = NoPage
    /\ fieldPresent = FALSE
    /\ username_selector = NoSelector
    /\ password_selector = NoSelector
    /\ filled = <<>>
    /\ readback = <<>>
    /\ presses = 0
    /\ still_login = FALSE
    /\ buttons = 0
    /\ i = 0
    /\ clicks = <<>>
    /\ raised = FALSE
    /\ shots = {}
    /\ gradesRequested = FALSE
    /\ data = NoData
    /\ new_ids = <<>>
    /\ notes = <<>>
    /\ subject = <<>>
    /\ body = <<>>
    /\ outbox = <<>>
    /\ mailAttempts = 0
    /\ written = {}
    /\ commitMsg = ""
    /\ gitLog = <<>>

\* the first scheduled run: no snapshot on disk yet
Init ==
    /\ prevFile = Absent
    /\ currFile = Absent
    /\ prevAtStart = Absent
    /\ cfg \in Configs
    /\ feed = NoFeed
    /\ Fresh

\* a login run: only login_and_fetch is followed
InitLogin ==
    /\ prevFile = Absent
    /\ currFile = Absent
    /\ prevAtStart = Absent
    /\ cfg \in LoginConfigs
    /\ feed = NoFeed
    /\ Fresh

\* the first scheduled run of a series over an append-only feed
InitFeed ==
    /\ prevFile = Absent
    /\ currFile = Absent
    /\ prevAtStart = Absent
    /\ cfg \in Configs
    /\ feed = FeedStart
    /\ Fresh

\* the reader's record after a step of a run, when a reader follows the runs
Track(f) == feed' = IF feed.on THEN f ELSE feed

\* sys.exit(code), or an exception that nothing catches (status 1)
Exit(code, why) ==
    /\ pc' = "exited"
    /\ exit' = code
    /\ err' = why

\* fatal(msg)
fatal(msg) == Exit(1, msg)

\* a login_and_fetch without the "with" block: an exception or sys.exit
\* leaves the driver and the browser as they are
TeardownLeftOut ==
    /\ playwright' = playwright
    /\ browser' = browser

\* leaving the "with sync_playwright()" block by an exception or by sys.exit:
\* the context manager stops the driver, which ends the browser
Teardown ==
    /\ playwright' = "stopped"
    /\ browser' = IF browser = "open" THEN "closed" ELSE browser

\* ------------------------------------------------------------- load_secrets
load_secrets ==
    /\ pc = "load_secrets"
    /\ IF cfg.BOT_SECRETS_B64
       THEN /\ pc' = "launch"
            /\ UNCHANGED <<exit, err>>
       ELSE Exit(1, "BOT_SECRETS_B64 not provided.")
    /\ UNCHANGED <<diskVars, procVars, obsVars, sessVars, loginVars, mainVars, gitVars>>

\* ---------------------------------------------------------- login_and_fetch
Launch ==
    /\ pc = "launch"
    /\ playwright' = "running"
    /\ browser' = "open"
    /\ pc' = "open_login"
    /\ UNCHANGED <<diskVars, procVars, obsVars, exit, err, loginVars, mainVars, gitVars>>

\* page.goto(LOGIN_URL), the first screenshot and the scan of the inputs
OpenLogin(pages) ==
    /\ pc = "open_login"
    /\ \/ /\ cfg.LOGIN_URL
          /\ \E p \in pages :
                /\ page' = p
                /\ shots' = shots \cup {"debug_before_login.png"}
          /\ pc' = "resolve"
          /\ UNCHANGED <<exit, err, sessVars>>
       \/ /\ Exit(1, "page.goto(LOGIN_URL) raised")
          /\ Teardown
          /\ UNCHANGED <<page, shots>>
    /\ UNCHANGED <<diskVars, procVars, obsVars, fieldPresent, username_selector,
                   password_selector, filled, readback, presses, still_login,
                   buttons, i, clicks, raised, gradesRequested, mainVars, gitVars>>

\* the two resolution loops and the two checks after them
Resolve ==
    /\ pc = "resolve"
    /\ LET u == FirstMatch(possible_user_fields(cfg), page)
           p == FirstMatch(possible_pass_fields(cfg), page)
       IN  /\ username_selector' = u
           /\ password_selector' = p
           /\ fieldPresent' = (Count(page, u) > 0)
           /\ IF u = NoSelector
              THEN fatal("Could not find username field.") /\ Teardown
              ELSE IF p = NoSelector
              THEN fatal("Could not find password field.") /\ Teardown
              ELSE pc' = "fill" /\ UNCHANGED <<exit, err, sessVars>>
    /\ UNCHANGED <<diskVars, procVars, obsVars, page, filled, readback, presses, still_login,
                   buttons, i, clicks, raised, shots, gradesRequested, mainVars, gitVars>>

\* page.fill of both fields; the values read back are only printed
Fill ==
    /\ pc = "fill"
    /\ filled' = <<<<username_selector, "LOGIN_USERNAME">>,
                   <<password_selector, "LOGIN_PASSWORD">>>>
    /\ readback' = <<FieldValue(page, "LOGIN_USERNAME"),
                     FieldValue(page, "LOGIN_PASSWORD")>>
    /\ pc' = "enter"
    /\ UNCHANGED <<diskVars, procVars, obsVars, exit, err, sessVars, page, fieldPresent,
                   username_selector, password_selector, presses, still_login,
                   buttons, i, clicks, raised, shots, gradesRequested, mainVars, gitVars>>

\* page.press(password_selector, "Enter"), the wait and still_login
Enter ==
    /\ pc = "enter"
    /\ presses' = presses + 1
    /\ \E present \in BOOLEAN :
          /\ fieldPresent' = present
          /\ still_login' = present
          /\ pc' = IF present THEN "buttons" ELSE "verify"
    /\ UNCHANGED <<diskVars, procVars, obsVars, exit, err, sessVars, page,
                   username_selector, password_selector, filled, readback,
                   buttons, i, clicks, raised, shots, gradesRequested, mainVars, gitVars>>

\* buttons = page.locator("button, input[type=submit]").all()
Buttons(most) ==
    /\ pc = "buttons"
    /\ \E n \in 0..most :
          /\ buttons' = n
          /\ pc' = IF n > 0 THEN "click" ELSE "verify"
    /\ i' = 0
    /\ UNCHANGED <<diskVars, procVars, obsVars, exit, err, sessVars, page, fieldPresent,
                   username_selector, password_selector, filled, readback,
                   presses, still_login, clicks, raised, shots, gradesRequested,
                   mainVars, gitVars>>

\* a loop that tries the same button again after a click that did not log in
ClickSameButton ==
    /\ pc = "click"
    /\ i < buttons
    /\ clicks' = Append(clicks, i)
    /\ \E threw \in BOOLEAN, present \in BOOLEAN :
          /\ raised' = threw
          /\ fieldPresent' = present
          /\ pc' = IF ~threw /\ ~present THEN "verify" ELSE "click"
    /\ UNCHANGED <<diskVars, procVars, obsVars, exit, err, sessVars, page,
                   username_selector, password_selector, filled, readback,
                   presses, still_login, buttons, i, shots, gradesRequested,
                   mainVars, gitVars>>

\* a loop without its break: every button is clicked
ClickNoBreak ==
    /\ pc = "click"
    /\ i < buttons
    /\ clicks' = Append(clicks, i)
    /\ \E threw \in BOOLEAN, present \in BOOLEAN :
          /\ raised' = threw
          /\ fieldPresent' = present
    /\ i' = i + 1
    /\ pc' = IF i + 1 < buttons THEN "click" ELSE "verify"
    /\ UNCHANGED <<diskVars, procVars, obsVars, exit, err, sessVars, page,
                   username_selector, password_selector, filled, readback,
                   presses, still_login, buttons, shots, gradesRequested,
                   mainVars, gitVars>>

\* one iteration of the loop over buttons: the click returns or raises, and
\* the identity field is on the page afterwards or is not
Click ==
    /\ pc = "click"
    /\ i < buttons
    /\ clicks' = Append(clicks, i)
    /\ \E threw \in BOOLEAN, present \in BOOLEAN :
          /\ raised' = threw
          /\ fieldPresent' = present
          /\ IF ~threw /\ ~present
             THEN /\ pc' = "verify"
                  /\ i' = i
             ELSE /\ i' = i + 1
                  /\ pc' = IF i + 1 < buttons THEN "click" ELSE "verify"
    /\ UNCHANGED <<diskVars, procVars, obsVars, exit, err, sessVars, page,
                   username_selector, password_selector, filled, readback,
                   presses, still_login, buttons, shots, gradesRequested,
                   mainVars, gitVars>>

\* a login that goes on to the grades without the check after both strategies
VerifySkipped ==
    /\ pc = "verify"
    /\ pc' = "fetch"
    /\ UNCHANGED <<exit, err, sessVars, shots>>
    /\ UNCHANGED <<diskVars, procVars, obsVars, page, fieldPresent, username_selector,
                   password_selector, filled, readback, presses, still_login,
                   buttons, i, clicks, raised, gradesRequested, mainVars, gitVars>>

\* the check after both strategies
Verify ==
    /\ pc = "verify"
    /\ IF fieldPresent
       THEN /\ shots' = shots \cup {"debug_after_failed_login.png"}
            /\ fatal("Login did not succeed. Check credentials!")
            /\ Teardown
       ELSE /\ pc' = "fetch"
            /\ UNCHANGED <<exit, err, sessVars, shots>>
    /\ UNCHANGED <<diskVars, procVars, obsVars, page, fieldPresent, username_selector,
                   password_selector, filled, readback, presses, still_login,
                   buttons, i, clicks, raised, gradesRequested, mainVars, gitVars>>

\* page.goto(GRADES_URL), json.loads of the body text, browser.close() and the
\* return, which ends the life of the function's locals and of the record kept
\* of its steps
Fetch(docs) ==
    /\ pc = "fetch"
    /\ \/ /\ cfg.GRADES_URL
          /\ \E d \in docs :
                /\ data' = d
                /\ Track([feed EXCEPT !.seen = IdSet(d.grades)])
          /\ browser' = "closed"
          /\ playwright' = "stopped"
          /\ pc' = "write_current"
          /\ page' = NoPage
          /\ fieldPresent' = FALSE
          /\ username_selector' = NoSelector
          /\ password_selector' = NoSelector
          /\ filled' = <<>>
          /\ readback' = <<>>
          /\ presses' = 0
          /\ still_login' = FALSE
          /\ buttons' = 0
          /\ i' = 0
          /\ clicks' = <<>>
          /\ raised' = FALSE
          /\ shots' = {}
          /\ gradesRequested' = FALSE
          /\ UNCHANGED <<exit, err>>
       \/ /\ gradesRequested' = cfg.GRADES_URL
          /\ Exit(1, "page.goto(GRADES_URL) or json.loads raised")
          /\ Teardown
          /\ UNCHANGED <<data, page, fieldPresent, username_selector,
                         password_selector, filled, readback, presses,
                         still_login, buttons, i, clicks, raised, shots, feed>>
    /\ UNCHANGED <<diskVars, procVars, new_ids, notes, subject, body, outbox,
                   mailAttempts, written, gitVars>>

\* --------------------------------------------------------------------- main
\* with open(CURRENT_FILE, "w"): json.dump(data, f, ...)
WriteCurrent ==
    /\ pc = "write_current"
    /\ currFile' = JsonDump(data)
    /\ written' = written \cup {CURRENT_FILE}
    /\ pc' = "check_format"
    /\ UNCHANGED <<prevFile, procVars, obsVars, exit, err, sessVars, loginVars, data, new_ids,
                   notes, subject, body, outbox, mailAttempts, gitVars>>

\* grades = data["data"]["grades"], fatal on any exception
CheckFormat ==
    /\ pc = "check_format"
    /\ IF data.hasGrades
       THEN pc' = "check_prev" /\ UNCHANGED <<exit, err>>
       ELSE fatal("JSON format unexpected.")
    /\ UNCHANGED <<diskVars, procVars, obsVars, sessVars, loginVars, mainVars, gitVars>>

\* main without its first-run branch: a missing previous.json is read as a
\* snapshot without records and the run goes on to the digest
FirstRunAsUpdate ==
    /\ pc = "check_prev"
    /\ ~prevFile.exists
    /\ \E it \in Iterations(IdSet(data.grades)) :
          /\ new_ids' = sorted(it)
          /\ IF sorted(it) = <<>>
             THEN Exit(0, "")
             ELSE pc' = "compose" /\ UNCHANGED <<exit, err>>
    /\ UNCHANGED <<diskVars, procVars, obsVars, sessVars, loginVars, data, notes, subject,
                   body, outbox, mailAttempts, written, gitVars>>

\* the first run: git mv current.json previous.json, then
\* git_commit_and_push([PREV_FILE], "Initial sample")
FirstRun ==
    /\ pc = "check_prev"
    /\ ~prevFile.exists
    /\ \/ /\ prevFile' = currFile
          /\ currFile' = Absent
          /\ written' = written \cup {PREV_FILE}
          /\ gitLog' = Append(gitLog, "mv")
          /\ commitMsg' = "Initial sample"
          /\ Track([feed EXCEPT !.baseline = IdSet(data.grades)])
          /\ pc' = "git_config"
          /\ UNCHANGED <<exit, err>>
       \/ /\ Exit(1, "git mv failed")
          /\ UNCHANGED <<diskVars, written, gitVars, feed>>
    /\ UNCHANGED <<procVars, sessVars, loginVars, data, new_ids, notes, subject,
                   body, outbox, mailAttempts>>

\* a diff that takes a previous snapshot without records for the first run
\* and returns without a digest
DiffEmptyIsFirstRun ==
    /\ pc = "check_prev"
    /\ prevFile.exists
    /\ LET prev == JsonLoad(prevFile)
           prev_ids == IdSet(PrevGrades(prev))
           curr_ids == IdSet(data.grades)
       IN  \E it \in Iterations(SetDifference(curr_ids, prev_ids)) :
              /\ new_ids' = sorted(it)
              /\ IF sorted(it) = <<>> \/ prev_ids = {}
                 THEN Exit(0, "")
                 ELSE pc' = "compose" /\ UNCHANGED <<exit, err>>
    /\ UNCHANGED <<diskVars, procVars, obsVars, sessVars, loginVars, data, notes, subject,
                   body, outbox, mailAttempts, written, gitVars>>

\* prev = json.load(f); prev_ids, curr_ids, new_ids; return when new_ids is empty
Diff ==
    /\ pc = "check_prev"
    /\ prevFile.exists
    /\ LET prev == JsonLoad(prevFile)
           prev_ids == IdSet(PrevGrades(prev))
           curr_ids == IdSet(data.grades)
       IN  \E it \in Iterations(SetDifference(curr_ids, prev_ids)) :
              /\ new_ids' = sorted(it)
              /\ IF sorted(it) = <<>>
                 THEN Exit(0, "")
                 ELSE pc' = "compose" /\ UNCHANGED <<exit, err>>
    /\ UNCHANGED <<diskVars, procVars, obsVars, sessVars, loginVars, data, notes, subject,
                   body, outbox, mailAttempts, written, gitVars>>

\* a digest of every record of the current snapshot, new or not
ComposeEveryRecord ==
    /\ pc = "compose"
    /\ LET ns == Notes(data.grades, [k \in 1..Len(data.grades) |-> data.grades[k].id])
       IN  /\ notes' = ns
           /\ subject' = Subject(ns)
           /\ body' = Body(ns)
    /\ pc' = "send"
    /\ UNCHANGED <<diskVars, procVars, obsVars, exit, err, sessVars, loginVars, data,
                   new_ids, outbox, mailAttempts, written, gitVars>>

\* notes, subject and body
Compose ==
    /\ pc = "compose"
    /\ LET ns == Notes(data.grades, new_ids)
       IN  /\ notes' = ns
           /\ subject' = Subject(ns)
           /\ body' = Body(ns)
    /\ pc' = "send"
    /\ UNCHANGED <<diskVars, procVars, obsVars, exit, err, sessVars, loginVars, data,
                   new_ids, outbox, mailAttempts, written, gitVars>>

\* a send_email whose failure is caught and logged: the run goes on
send_emailCaught ==
    /\ pc = "send"
    /\ mailAttempts' = mailAttempts + 1
    /\ \/ /\ cfg.SMTP_HOST
          /\ outbox' = Append(outbox, [Subject |-> subject, Body |-> body,
                                       To |-> "RECIPIENT_EMAIL"])
       \/ UNCHANGED outbox
    /\ pc' = "write_prev"
    /\ UNCHANGED <<diskVars, procVars, obsVars, exit, err, sessVars, loginVars, data, new_ids,
                   notes, subject, body, written, gitVars>>

\* send_email(subject, body, RECIPIENT): the message is delivered, or the
\* connection, starttls, login or send_message raises
send_email ==
    /\ pc = "send"
    /\ mailAttempts' = mailAttempts + 1
    /\ \/ /\ cfg.SMTP_HOST
          /\ outbox' = Append(outbox, [Subject |-> subject, Body |-> body,
                                       To |-> "RECIPIENT_EMAIL"])
          /\ Track([feed EXCEPT !.notified = @ \cup NoteIds(notes),
                                !.twice = @ \cup (feed.notified \cap NoteIds(notes))])
          /\ pc' = "write_prev"
          /\ UNCHANGED <<exit, err>>
       \/ /\ Exit(1, "send_email raised")
          /\ Track([feed EXCEPT !.failed = @ \cup NoteIds(notes)])
          /\ UNCHANGED outbox
    /\ UNCHANGED <<diskVars, procVars, sessVars, loginVars, data, new_ids, notes,
                   subject, body, written, gitVars>>

\* a run that publishes previous.json without writing the fetched document to it
WritePrevLeftOut ==
    /\ pc = "write_prev"
    /\ commitMsg' = "Updated sample"
    /\ pc' = "git_config"
    /\ UNCHANGED <<diskVars, procVars, obsVars, exit, err, sessVars, loginVars, mainVars,
                   gitLog>>

\* with open(PREV_FILE, "w"): json.dump(data, f, ...), then
\* git_commit_and_push([PREV_FILE], "Updated sample")
WritePrev ==
    /\ pc = "write_prev"
    /\ prevFile' = JsonDump(data)
    /\ written' = written \cup {PREV_FILE}
    /\ commitMsg' = "Updated sample"
    /\ pc' = "git_config"
    /\ UNCHANGED <<currFile, procVars, obsVars, exit, err, sessVars, loginVars, data, new_ids,
                   notes, subject, body, outbox, mailAttempts, gitLog>>

\* ------------------------------------------------------ git_commit_and_push
\* one subprocess.check_call that is not wrapped in try: the command runs, or
\* it fails and CalledProcessError ends the process
CheckCall(at, cmd, next) ==
    /\ pc = at
    /\ \/ /\ gitLog' = Append(gitLog, cmd)
          /\ pc' = next
          /\ UNCHANGED <<exit, err>>
       \/ /\ Exit(1, "git " \o cmd \o " failed")
          /\ UNCHANGED gitLog
    /\ UNCHANGED <<diskVars, procVars, obsVars, sessVars, loginVars, mainVars, commitMsg>>

GitConfigName == CheckCall("git_config", "config user.name", "git_config_email")
GitConfigEmail == CheckCall("git_config_email", "config user.email", "git_add")
GitAdd == CheckCall("git_add", "add", "git_commit")

\* git commit by subprocess.call: its status is not looked at
GitCommitUnchecked ==
    /\ pc = "git_commit"
    /\ \/ gitLog' = Append(gitLog, "commit")
       \/ UNCHANGED gitLog
    /\ pc' = "git_push"
    /\ UNCHANGED <<exit, err>>
    /\ UNCHANGED <<diskVars, procVars, obsVars, sessVars, loginVars, mainVars, commitMsg>>

\* git commit inside try: a failure means nothing to commit, and returns
GitCommit ==
    /\ pc = "git_commit"
    /\ \/ /\ gitLog' = Append(gitLog, "commit")
          /\ pc' = "git_push"
          /\ UNCHANGED <<exit, err>>
       \/ /\ Exit(0, "")
          /\ UNCHANGED gitLog
    /\ UNCHANGED <<diskVars, procVars, obsVars, sessVars, loginVars, mainVars, commitMsg>>

\* the token check, the remote url rewrite and git push
GitPush ==
    /\ pc = "git_push"
    /\ IF ~cfg.GITHUB_TOKEN
       THEN Exit(0, "") /\ UNCHANGED gitLog
       ELSE \/ /\ gitLog' = Append(gitLog, "push")
               /\ Exit(0, "")
            \/ /\ Exit(1, "git push failed")
               /\ UNCHANGED gitLog
    /\ UNCHANGED <<diskVars, procVars, obsVars, sessVars, loginVars, mainVars, commitMsg>>

\* ------------------------------------------------------------- the schedule
\* the scheduler starts the next process; the files on disk stay
StartRun ==
    /\ pc = "exited"
    /\ prevAtStart' = prevFile
    /\ cfg' \in Configs
    /\ pc' = "load_secrets"
    /\ exit' = -1
    /\ err' = ""
    /\ playwright' = "none"
    /\ browser' = "none"
    /\ page' = NoPage
    /\ fieldPresent' = FALSE
    /\ username_selector' = NoSelector
    /\ password_selector' = NoSelector
    /\ filled' = <<>>
    /\ readback' = <<>>
    /\ presses' = 0
    /\ still_login' = FALSE
    /\ buttons' = 0
    /\ i' = 0
    /\ clicks' = <<>>
    /\ raised' = FALSE
    /\ shots' = {}
    /\ gradesRequested' = FALSE
    /\ data' = NoData
    /\ new_ids' = <<>>
    /\ notes' = <<>>
    /\ subject' = <<>>
    /\ body' = <<>>
    /\ outbox' = <<>>
    /\ mailAttempts' = 0
    /\ written' = {}
    /\ commitMsg' = ""
    /\ gitLog' = <<>>
    /\ UNCHANGED <<diskVars, obsVars>>

login_and_fetch(pages, most, docs) ==
    \/ Launch
    \/ OpenLogin(pages)
    \/ Resolve
    \/ Fill
    \/ Enter
    \/ Buttons(most)
    \/ Click
    \/ Verify
    \/ Fetch(docs)

git_commit_and_push ==
    \/ GitConfigName
    \/ GitConfigEmail
    \/ GitAdd
    \/ GitCommit
    \/ GitPush

main ==
    \/ WriteCurrent
    \/ CheckFormat
    \/ FirstRun
    \/ Diff
    \/ Compose
    \/ send_email
    \/ WritePrev

Next ==
    \/ load_secrets
    \/ login_and_fetch(MainPages, 1, Docs)
    \/ main
    \/ git_commit_and_push
    \/ StartRun

Spec == Init /\ [][Next]_vars

\* the login heuristic alone, over every page and every field hint
NextLogin ==
    \/ load_secrets
    \/ login_and_fetch(AllPages, MaxButtons, {BadDoc})

SpecLogin == InitLogin /\ [][NextLogin]_vars

\* the process is sequential and every call in login_and_fetch returns or
\* raises within its timeout: a statement that can run does run
SpecLoginFair == InitLogin /\ [][NextLogin]_vars /\ WF_vars(NextLogin)

\* the documents an append-only feed can serve next: ids unique, and every id
\* of the last document served still there
UniqueIds(grades) == \A a, b \in 1..Len(grades) : grades[a].id = grades[b].id => a = b
FeedDocs == {d \in GoodDocs : UniqueIds(d.grades) /\ feed.seen \subseteq IdSet(d.grades)}

\* runs over an append-only feed, followed by a reader
NextFeed ==
    \/ load_secrets
    \/ login_and_fetch(MainPages, 1, FeedDocs)
    \/ main
    \/ git_commit_and_push
    \/ StartRun

SpecFeed == InitFeed /\ [][NextFeed]_vars

\* ==================================================================== claims
\* the previous snapshot's records as the process found them at its start
PrevRecords == IF prevAtStart.exists THEN PrevGrades(JsonLoad(prevAtStart)) ELSE <<>>
\* login_and_fetch has returned a document that has data.grades (data is
\* NoData, without grades, until it returns)
Fetched == data.hasGrades
\* the run had a previous.json and is past the computation of new_ids
DiffDone ==
    /\ prevAtStart.exists
    /\ Fetched
    /\ pc \notin {"write_current", "check_format", "check_prev"}
Ascending(s) == \A a, b \in 1..Len(s) : a < b => s[a] < s[b]
Message == [Subject |-> subject, Body |-> body, To |-> "RECIPIENT_EMAIL"]

\* C1 as stated: in a run that finds no previous.json and fetches a document
\* with data.grades, no notification is sent and at the end of the run
\* previous.json holds exactly the fetched document.
C1_EveryFirstRunStoresSnapshot ==
    (pc = "exited" /\ ~prevAtStart.exists /\ Fetched)
        => /\ outbox = <<>>
           /\ mailAttempts = 0
           /\ prevFile = JsonDump(data)

\* C1 amended: in a run that finds no previous.json and fetches a document with
\* data.grades, send_email is never called; if git mv ran, previous.json holds
\* exactly the fetched document from then on, and if git mv failed the run
\* ends with status 1 and previous.json is still absent.
C1_FirstRun ==
    (~prevAtStart.exists /\ Fetched)
        => /\ outbox = <<>>
           /\ mailAttempts = 0
           /\ pc \notin {"compose", "send", "write_prev"}
           /\ IF "mv" \in Elems(gitLog)
              THEN prevFile.exists /\ JsonLoad(prevFile) = data
              ELSE ~prevFile.exists
           /\ (pc = "exited" /\ ~prevFile.exists => exit = 1 /\ err = "git mv failed")

C1_Witness ==
    /\ pc = "exited"
    /\ exit = 0
    /\ ~prevAtStart.exists
    /\ Fetched
    /\ Len(data.grades) = MaxGrades
    /\ prevFile = JsonDump(data)
    /\ outbox = <<>>

\* C2: once main has computed new_ids, the list holds exactly the ids of the
\* current snapshot that are not in the previous one, each once, in ascending
\* order, and no id that is only in the previous snapshot. A strictly ascending
\* list of a given set is unique, so equal inputs give equal lists whatever
\* order the set iteration took.
C2_NewIds ==
    DiffDone =>
        /\ Elems(new_ids) = IdSet(data.grades) \ IdSet(PrevRecords)
        /\ Ascending(new_ids)
        /\ \A x \in IdSet(PrevRecords) \ IdSet(data.grades) : x \notin Elems(new_ids)

C2_Witness ==
    /\ DiffDone
    /\ Len(new_ids) >= 2
    /\ data.grades[1].id > data.grades[2].id

\* C3 as stated: a previous snapshot that exists but holds no records is the
\* bootstrap case: the run sends no notification.
C3_EmptyPreviousSendsNothing ==
    (prevAtStart.exists /\ PrevRecords = <<>>)
        => /\ outbox = <<>>
           /\ mailAttempts = 0

\* C3 amended: only a missing previous.json is the first run. With a previous
\* snapshot that exists and holds no records every id of the current snapshot
\* is new: when the current snapshot has records the run composes a digest of
\* all of them and calls send_email, and previous.json is rewritten only after
\* that message was delivered; when it has none, nothing is sent.
C3_EmptyPrevious ==
    (DiffDone /\ PrevRecords = <<>>)
        => /\ Elems(new_ids) = IdSet(data.grades)
           /\ (data.grades = <<>> => pc = "exited" /\ exit = 0 /\ mailAttempts = 0)
           /\ (data.grades # <<>> /\ pc = "exited" => mailAttempts = 1)
           /\ (data.grades # <<>> /\ outbox # <<>>
                 => /\ Len(outbox) = 1
                    /\ Len(notes) = Len(data.grades)
                    /\ outbox[1].Subject = Subject(notes))
           /\ (PREV_FILE \in written => outbox # <<>>)

C3_Witness ==
    /\ pc = "exited"
    /\ exit = 0
    /\ prevAtStart.exists
    /\ PrevRecords = <<>>
    /\ Fetched
    /\ Len(data.grades) = MaxGrades
    /\ Len(outbox) = 1

\* C4 as stated: a run whose fetched document lacks data.grades ends with a
\* non-zero status, sends nothing and writes neither current.json nor
\* previous.json.
C4_BadFormatWritesNothing ==
    (pc = "exited" /\ data = BadDoc)
        => /\ exit = 1
           /\ outbox = <<>>
           /\ mailAttempts = 0
           /\ written = {}

\* C5: a run that aborts at login, fetch, format check or mail sending leaves
\* previous.json as it found it; previous.json is created or written only
\* after the due notification (there is one exactly when a previous snapshot
\* exists and new_ids is not empty) was delivered; send_email is called at
\* most once in a run, and a run whose send_email raised has ended.
EarlyAborts ==
    {"BOT_SECRETS_B64 not provided.", "page.goto(LOGIN_URL) raised",
     "Could not find username field.", "Could not find password field.",
     "Login did not succeed. Check credentials!",
     "page.goto(GRADES_URL) or json.loads raised", "JSON format unexpected.",
     "send_email raised"}
C5_PreviousUntouchedOnAbort ==
    /\ (pc = "exited" /\ err \in EarlyAborts
          => exit = 1 /\ prevFile = prevAtStart /\ PREV_FILE \notin written)
    /\ (PREV_FILE \in written \/ prevFile # prevAtStart
          => IF prevAtStart.exists
             THEN new_ids # <<>> /\ outbox = <<Message>>
             ELSE outbox = <<>> /\ mailAttempts = 0)
    /\ mailAttempts <= 1
    /\ Len(outbox) <= mailAttempts
    /\ (mailAttempts = 1 /\ outbox = <<>> => pc = "exited" /\ err = "send_email raised")

C5_Witness ==
    /\ pc = "exited"
    /\ err = "send_email raised"
    /\ cfg.SMTP_HOST
    /\ prevAtStart.exists
    /\ prevFile = prevAtStart
    /\ JsonLoad(prevFile) # data
    /\ mailAttempts = 1

\* the records with their scores replaced by those of f
WithValues(grades, f) == [k \in 1..Len(grades) |-> [grades[k] EXCEPT !.value = f[k]]]
\* the subject and body main composes from a previous and a current snapshot
Digest(previous, current) ==
    LET it == CHOOSE o \in Iterations(SetDifference(IdSet(current), IdSet(previous))) : TRUE
        ns == Notes(current, sorted(it))
    IN  [Subject |-> Subject(ns), Body |-> Body(ns)]
Labels == {"Fach: ", "\nBezeichnung: ", "\nDatum: ", "\n\n"}
\* the texts a digest may take from the new records
NewRecordTexts ==
    UNION {{PyStr(GetSubjectName(data.grades[k])), PyStr(GetCollectionName(data.grades[k])),
            PyStr(GetGivenAt(data.grades[k]))} :
           k \in {n \in 1..Len(data.grades) : data.grades[n].id \in Elems(new_ids)}}

\* C6: the subject and body a run has composed are the ones it would have
\* composed from the same previous and current snapshots with any other scores
\* in their records, and every piece of the body is a fixed label or the
\* subject name, collection name or given_at of a new record.
C6_Redaction ==
    subject # <<>> =>
        /\ \A f \in [1..Len(data.grades) -> Values], h \in [1..Len(PrevRecords) -> Values] :
              Digest(WithValues(PrevRecords, h), WithValues(data.grades, f))
                 = [Subject |-> subject, Body |-> body]
        /\ Elems(body) \subseteq Labels \cup NewRecordTexts

C6_Witness ==
    /\ Len(outbox) = 1
    /\ outbox[1].Body = body
    /\ Len(notes) = MaxGrades
    /\ \E k \in 1..Len(data.grades) : data.grades[k].value \in Values
    /\ \E k \in 1..Len(PrevRecords) : PrevRecords[k].value \in Values

\* C7: in a run that has a previous.json and whose current snapshot has no id
\* that the previous one lacks, new_ids is empty, the run never reaches the
\* digest and send_email is not called.
C7_NothingNew ==
    (prevAtStart.exists /\ Fetched /\ IdSet(data.grades) \subseteq IdSet(PrevRecords))
        => /\ new_ids = <<>>
           /\ outbox = <<>>
           /\ mailAttempts = 0
           /\ pc \notin {"compose", "send", "write_prev"}

C7_Witness ==
    /\ pc = "exited"
    /\ exit = 0
    /\ prevAtStart.exists
    /\ Fetched
    /\ IdSet(data.grades) \subseteq IdSet(PrevRecords)
    /\ IdSet(data.grades) # IdSet(PrevRecords)
    /\ data.grades # <<>>

\* C8 as stated: after every run that ends with status 0 (first run, no new
\* entries, or update) previous.json holds exactly the document fetched in
\* that run.
C8_PreviousIsLastFetched ==
    (pc = "exited" /\ exit = 0)
        => /\ prevFile.exists
           /\ JsonLoad(prevFile) = data

\* C9 as stated: a run started without the login URL, the grades URL or the
\* mail host ends with a non-zero status.
RequiredMissing(c) == ~c.LOGIN_URL \/ ~c.GRADES_URL \/ ~c.SMTP_HOST
C9_MissingConfigIsFatal ==
    (pc = "exited" /\ RequiredMissing(cfg)) => exit # 0

\* the run is past the resolution of the two selectors on a loaded login page
Resolved ==
    \/ pc \in {"fill", "enter", "buttons", "click", "verify", "fetch"}
    \/ pc = "exited" /\ "debug_before_login.png" \in shots
UserCandidates == <<cfg.LOGIN_FORM_FIELD_USER, "identifier", "username", "email", "user">>
PassCandidates == <<cfg.LOGIN_FORM_FIELD_PASS, "password", "pass", "passwd">>
NoneOn(cands, p) == \A k \in 1..Len(cands) : cands[k] \notin p.inputs

\* C10: the identity selector names the first of the configured name,
\* "identifier", "username", "email", "user" that the page has an input for;
\* a page with an input of the configured name gets that one whatever else it
\* has; and when the page has no input for any identity candidate, or for any
\* secret candidate, the run ends with status 1 with no field filled, no Enter
\* pressed and no button clicked.
C10_FieldResolution ==
    Resolved =>
        /\ \A k \in 1..Len(UserCandidates) :
              (/\ UserCandidates[k] \in page.inputs
               /\ \A j \in 1..(k - 1) : UserCandidates[j] \notin page.inputs)
                 => username_selector = Selector(UserCandidates[k])
        /\ (cfg.LOGIN_FORM_FIELD_USER \in page.inputs
              => username_selector = Selector(cfg.LOGIN_FORM_FIELD_USER))
        /\ (NoneOn(UserCandidates, page) \/ NoneOn(PassCandidates, page)
              => /\ pc = "exited"
                 /\ exit = 1
                 /\ filled = <<>>
                 /\ presses = 0
                 /\ clicks = <<>>)
        /\ (filled # <<>> => username_selector # NoSelector /\ password_selector # NoSelector)

C10_Witness ==
    /\ pc = "enter"
    /\ cfg.LOGIN_FORM_FIELD_USER = "login"
    /\ {"login", "username", "password"} \subseteq page.inputs
    /\ username_selector = Selector("login")
    /\ filled[1] = <<Selector("login"), "LOGIN_USERNAME">>

\* the run ended in fatal("Login did not succeed. Check credentials!")
LoginFailed == pc = "exited" /\ err = "Login did not succeed. Check credentials!"

\* C11: a run that ends after the Enter press with the identity field still on
\* the page has written debug_after_failed_login.png and has exited with
\* status 1 by the login failure, without a request for the grades; the
\* grades are requested only when the identity field is off the page.
C11_AuthenticationFailure ==
    /\ (pc = "exited" /\ presses = 1 /\ fieldPresent) =>
          /\ LoginFailed
          /\ exit = 1
          /\ "debug_after_failed_login.png" \in shots
          /\ ~gradesRequested
    /\ LoginFailed => fieldPresent /\ presses = 1
    /\ (pc = "fetch" \/ gradesRequested) => ~fieldPresent
\* the login fails after Enter and after a click on every button
C11_Witness ==
    /\ LoginFailed
    /\ buttons > 0
    /\ Len(clicks) = buttons
    /\ "debug_after_failed_login.png" \in shots

\* the number of times a piece of text occurs in a text
CountOf(piece, text) == Cardinality({k \in 1..Len(text) : text[k] = piece})

\* C12: when the ids are unique within the previous and within the current
\* snapshot, a composed digest has the number of new ids in its subject line
\* and one block for each new id in its body, and the message sent is that
\* digest.
C12_OneBlockPerNewId ==
    (subject # <<>> /\ UniqueIds(data.grades) /\ UniqueIds(PrevRecords)) =>
        /\ subject = <<"[Noten-Update] ">> \o IntToStr(Len(new_ids)) \o <<" neue Einträge">>
        /\ CountOf("Fach: ", body) = Len(new_ids)
        /\ CountOf("\n\n", body) = Len(new_ids) - 1
        /\ Len(notes) = Len(new_ids)
        /\ NoteIds(notes) = Elems(new_ids)
        /\ \A k \in 1..Len(outbox) : outbox[k] = Message
\* a digest of one new record, sent in a run whose document has an old record too
C12_Witness ==
    /\ outbox # <<>>
    /\ UniqueIds(data.grades)
    /\ UniqueIds(PrevRecords)
    /\ Len(new_ids) = 1
    /\ Len(data.grades) = 2

\* the text the k-th block of the body shows after "Fach: " and after
\* "Bezeichnung: " (a block is six pieces of text, and a separator follows it)
ShownSubject(k) == body[7 * (k - 1) + 2]
ShownCollection(k) == body[7 * (k - 1) + 4]

\* C13 as stated: in a composed digest, the block of a new record that has no
\* subject name (and no other field that names the subject) shows "unknown",
\* and the block of a new record that has no collection name shows a
\* placeholder, never an empty or null value.
C13_ComposerFallbacks ==
    subject # <<>> =>
        \A k \in 1..Len(notes) :
            /\ notes[k].subject = None => ShownSubject(k) = "unknown"
            /\ notes[k].collection = None => ShownCollection(k) \notin {"None", "null", ""}

\* C14 as stated: Enter is pressed, and a button is clicked, only when the
\* value read back from each of the two fields is the credential that was
\* written into it.
C14_PostFillCheck ==
    (presses > 0 \/ clicks # <<>>) =>
        readback = <<"LOGIN_USERNAME", "LOGIN_PASSWORD">>

\* C15: Enter is pressed at most once; the buttons clicked are the first ones
\* found, each once and in document order; the buttons are collected and
\* clicked only when the identity field was still there after Enter; and a
\* login that has reached the Enter press ends with the grades about to be
\* requested or with the login failure.
C15_BoundedLogin ==
    /\ [](/\ presses <= 1
          /\ Len(clicks) <= buttons
          /\ clicks = [k \in 1..Len(clicks) |-> k - 1]
          /\ (pc \in {"buttons", "click"} \/ buttons > 0 \/ clicks # <<>>) =>
                (still_login /\ presses = 1))
    /\ (pc = "enter" ~> (pc = "fetch" \/ LoginFailed))
\* every button was clicked after Enter left the identity field on the page,
\* and the last click logged in
C15_Witness ==
    /\ pc = "fetch"
    /\ presses = 1
    /\ still_login
    /\ buttons = MaxButtons
    /\ Len(clicks) = buttons

\* a step that clicks a button after an earlier click
LaterClick == Len(clicks') > Len(clicks) /\ clicks # <<>>
\* a click that raised leaves the process running, at the next button or,
\* after the last button, at the check that follows the loop
LoopGoesOn ==
    (pc = "click" /\ raised') =>
        /\ exit' = -1
        /\ i' = i + 1
        /\ pc' = IF i + 1 < buttons THEN "click" ELSE "verify"
\* the first button was clicked, the click returned and the identity field is
\* gone: no other click follows and the login does not fail
FirstButtonLogsIn ==
    (clicks = <<0>> /\ ~raised /\ ~fieldPresent) =>
        /\ Len(clicks') <= 1
        /\ ~LoginFailed'

\* C16 as stated: a button is clicked after an earlier click only when the
\* identity field is still on the page, whether that earlier click returned
\* or raised; a click that raises is not fatal and the loop goes on; when the
\* first button logs in, one click is made and the login succeeds.
C16_StopsAtFirstSuccess ==
    /\ [][LaterClick => fieldPresent]_vars
    /\ [][(fieldPresent' => LoopGoesOn) /\ FirstButtonLogsIn]_vars

\* C16, amended: a button is clicked after an earlier click only when that
\* click raised or left the identity field on the page; a click that raises
\* is not fatal and the loop goes on to the next button, whether the identity
\* field is still there or not; when the first button's click returns and the
\* identity field is gone, one click is made and the login succeeds.
C16_StopsAtFirstCheckedSuccess ==
    /\ [][LaterClick => (fieldPresent \/ raised)]_vars
    /\ [][LoopGoesOn /\ FirstButtonLogsIn]_vars
\* Enter did not log in, the first of the buttons did, and no other was clicked
C16_Witness ==
    /\ pc = "fetch"
    /\ still_login
    /\ buttons = MaxButtons
    /\ clicks = <<0>>
    /\ ~raised
    /\ ~fieldPresent

\* login_and_fetch was entered and has been left, by its return or by an
\* exception or sys.exit inside it
LeftLogin == playwright # "none" /\ pc \in {"exited", "write_current"}

\* C17: once login_and_fetch has been left, by "could not find ... field", by
\* the login failure, by a failed fetch or parse, or by its return, the
\* browser it launched is closed and the driver is stopped.
C17_SessionReleased ==
    /\ LeftLogin => (browser = "closed" /\ playwright = "stopped")
    /\ (pc \in {"exited", "write_current"} /\ ~LeftLogin) => browser = "none"
\* the function was left by the login failure, with the browser closed
C17_Witness ==
    /\ LoginFailed
    /\ browser = "closed"
    /\ playwright = "stopped"

\* the add, commit and push that ran, in the order they ran
IsPublishStep(cmd) == cmd \in {"add", "commit", "push"}
PublishSteps == SelectSeq(gitLog, IsPublishStep)
Ran(cmd) == cmd \in Elems(gitLog)

\* C18: git add, git commit and git push run in that order; a run that ends
\* after an add without a commit ends with status 0 and without a push; git
\* push is reached only after a commit that succeeded and with a token; a
\* failed add or push ends the run with status 1.
C18_Publish ==
    /\ PublishSteps \in {<<>>, <<"add">>, <<"add", "commit">>, <<"add", "commit", "push">>}
    /\ (pc = "exited" /\ Ran("add") /\ ~Ran("commit")) =>
          (exit = 0 /\ err = "" /\ ~Ran("push"))
    /\ (Ran("push") \/ err = "git push failed") => (Ran("commit") /\ cfg.GITHUB_TOKEN)
    /\ pc = "git_push" => Ran("commit")
    /\ err \in {"git add failed", "git push failed"} => (pc = "exited" /\ exit = 1)
    /\ (pc = "exited" /\ exit = 0 /\ commitMsg # "") => Ran("add")
\* the snapshot was staged, committed and pushed
C18_Witness ==
    /\ pc = "exited"
    /\ exit = 0
    /\ PublishSteps = <<"add", "commit", "push">>

\* C19: over runs on an append-only feed with unique ids, started without a
\* previous.json: no id is named in two delivered notifications, no id of the
\* snapshot the first run stored is named in a notification, and a delivered
\* notification leaves no id unnotified that the feed has shown since that
\* first snapshot (so an id is named by the first delivered notification after
\* it appeared); once previous.json is written, its ids are those of the first
\* snapshot and those notified.
C19_NotifiedOnce ==
    /\ feed.twice = {}
    /\ feed.notified \cap feed.baseline = {}
    /\ outbox # <<>> =>
          /\ (feed.seen \ feed.baseline) \subseteq feed.notified
          /\ NoteIds(notes) \cap feed.baseline = {}
    /\ (prevFile.exists /\ pc # "write_prev") =>
          IdSet(PrevGrades(JsonLoad(prevFile))) = feed.baseline \cup feed.notified
\* the first snapshot had a record, and an id whose digest could not be sent
\* in one run is named in the notification a later run delivered
C19_Witness ==
    /\ feed.on
    /\ outbox # <<>>
    /\ feed.baseline # {}
    /\ NoteIds(notes) \cap feed.failed # {}
====
